---- MODULE Spec2Model ----
(***************************************************************************)
(* A model of myprofiler (src/myprofiler.go): the two summarizers, the     *)
(* ranking report and the sampling loop.                                   *)
(*                                                                         *)
(* A statement text is a sequence of one-character strings.  A Go map is   *)
(* a function whose DOMAIN is the set of its keys.  A report line          *)
(* "%4d %s\n" is the record [c |-> count, q |-> text] it is printed from.  *)
(***************************************************************************)
EXTENDS Integers, Sequences, FiniteSets, TLC

VARIABLES
    cfg,        \* Config: [dump, topN, last, delay]
    summ,       \* the Summarizer built by NewSummarizer(cfg.last)
    pc,         \* position of profile's loop ("api" when the summarizer is driven directly)
    cnt,        \* profile's round counter
    queries,    \* profile's local slice `queries`
    round,      \* number of rounds sampled so far
    calls,      \* the number of Update calls so far
    total,      \* Cumulative: occurrences of each statement in all batches so far
    window,     \* Windowed(N): the last N batches passed to Update, oldest first
    seen,       \* the statements passed to Update so far
    out,        \* what the last step wrote to the report sink
    op,         \* the last operation: its name, Show's argument n, whether a write of Show failed
    werr,       \* some write to the report sink has failed
    reported,   \* the rounds at whose end a report was emitted
    dumped,     \* what the last step wrote to the raw-dump sink, and whether a write failed
    qfailed,    \* the snapshot query of the round being processed failed
    snapshot,   \* what db.Query and rows.Columns gave processList, when it is followed step by step
    tokens      \* the pieces of the statement handed to normalizeQuery on its own

vars ==
    <<cfg, summ, pc, cnt, queries, round, calls, total, window, seen, out, op,
      werr, reported, dumped, qfailed, snapshot, tokens>>

\* ---------------------------------------------------------------- bounds

MaxTokens == 5      \* pieces of a statement handed to normalizeQuery on its own
MaxBatch == 2       \* statements per batch / rows per snapshot
MaxCalls == 3       \* Update calls when the summarizer is driven directly
MaxRounds == 3      \* rounds of the sampling loop
MaxCount == 3       \* largest count in a frequency mapping handed to showSummary directly

\* the configurations explored: -last, -top, -delay
Lasts == {-1, 0, 1, 2}
TopNs == -1 .. 3
LoopLasts == {0, 2}
LoopTopNs == {2}
Delays == {0, 1, 2}

\* ---------------------------------------------------------------- text

\* byte values of the characters the model's texts use
ascii ==
    ("\n" :> 10) @@ (" " :> 32) @@ ("\"" :> 34) @@ ("'" :> 39) @@ ("(" :> 40) @@
    (")" :> 41) @@ ("*" :> 42) @@ ("+" :> 43) @@ ("," :> 44) @@ ("-" :> 45) @@
    ("." :> 46) @@ ("0" :> 48) @@ ("1" :> 49) @@ ("2" :> 50) @@ ("3" :> 51) @@
    ("4" :> 52) @@ ("5" :> 53) @@ ("6" :> 54) @@ ("7" :> 55) @@ ("8" :> 56) @@
    ("9" :> 57) @@ ("=" :> 61) @@ ("A" :> 65) @@ ("B" :> 66) @@ ("C" :> 67) @@
    ("E" :> 69) @@ ("F" :> 70) @@ ("H" :> 72) @@ ("I" :> 73) @@ ("L" :> 76) @@
    ("N" :> 78) @@ ("O" :> 79) @@ ("P" :> 80) @@ ("R" :> 82) @@ ("S" :> 83) @@
    ("T" :> 84) @@ ("U" :> 85) @@ ("W" :> 87) @@ ("\\" :> 92) @@ ("_" :> 95) @@
    ("a" :> 97) @@ ("b" :> 98) @@ ("c" :> 99) @@ ("f" :> 102) @@ ("x" :> 120)

\* Go's string comparison a < b: bytewise lexicographic
RECURSIVE strLess(_, _)
strLess(a, b) ==
    IF b = <<>> THEN FALSE
    ELSE IF a = <<>> THEN TRUE
    ELSE IF a[1] = b[1] THEN strLess(Tail(a), Tail(b))
    ELSE ascii[a[1]] < ascii[b[1]]

Front(s) == SubSeq(s, 1, Len(s) - 1)
Last(s) == s[Len(s)]
Min(a, b) == IF a < b THEN a ELSE b
Max(a, b) == IF a > b THEN a ELSE b

\* variant of insertString that leaves the batch in arrival order
insertStringUnsorted(s, x) == Append(s, x)
\* insertion step of sort.Strings on a slice of at most 12 elements:
\* x moves left while it is less than its left neighbour
RECURSIVE insertString(_, _)
insertString(s, x) ==
    IF s # <<>> /\ strLess(x, Last(s))
    THEN Append(insertString(Front(s), x), Last(s))
    ELSE Append(s, x)

RECURSIVE sortStrings(_)
sortStrings(s) ==
    IF s = <<>> THEN <<>> ELSE insertString(sortStrings(Front(s)), Last(s))

\* ---------------------------------------------------------------- ranking

\* variant of Less that never asks for a swap, so nothing is sorted
LessNever(p, r) == FALSE
\* variant of Less with the comparison turned round
LessWrong(p, r) == p.c < r.c
\* pairList.Less(i, j) on the elements themselves
Less(p, r) == p.c > r.c

RECURSIVE insertPair(_, _)
insertPair(pl, x) ==
    IF pl # <<>> /\ Less(x, Last(pl))
    THEN Append(insertPair(Front(pl), x), Last(pl))
    ELSE Append(pl, x)

\* sort.Sort(pairList(counts)): insertion sort for at most 12 elements
RECURSIVE sortPairs(_)
sortPairs(pl) ==
    IF pl = <<>> THEN <<>> ELSE insertPair(sortPairs(Front(pl)), Last(pl))

\* the orders in which `for q, c := range sum` may visit the keys
IterOrders(sum) ==
    LET K == DOMAIN sum
        n == Cardinality(K)
    IN  {f \in [1 .. n -> K] : \A i, j \in 1 .. n : f[i] = f[j] => i = j}

\* variant of attempts whose loop breaks at i > n
attemptsOffByOne(len, n) == Min(len, Max(n + 1, 0))
\* the number of lines showSummary tries to write: the loop breaks at i >= n
attempts(len, n) == Min(len, Max(n, 0))

\* showSummary(w, sum, n) when the map is visited in `order` and the
\* failAt-th Fprintf on w fails (0: none fails).  A failed Fprintf counts as
\* no line emitted.
showSummary(sum, n, order, failAt) ==
    LET counts == [i \in 1 .. Len(order) |-> [q |-> order[i], c |-> sum[order[i]]]]
        sorted == sortPairs(counts)
        k == attempts(Len(sorted), n)
        failed == failAt >= 1 /\ failAt <= k
    IN  [lines |-> SubSeq(sorted, 1, IF failed THEN failAt - 1 ELSE k),
         err |-> failed]

\* ---------------------------------------------------------------- summarizer

\* variant of mapInc that stores 1 instead of incrementing
mapSetOne(m, q) == IF q \in DOMAIN m THEN [m EXCEPT ![q] = 1] ELSE m @@ (q :> 1)
\* s.counts[q]++ on a map: a missing key reads as 0
mapInc(m, q) == IF q \in DOMAIN m THEN [m EXCEPT ![q] = @ + 1] ELSE m @@ (q :> 1)

RECURSIVE countAll(_, _)
countAll(m, qs) ==
    IF qs = <<>> THEN m ELSE countAll(mapInc(m, qs[1]), Tail(qs))

\* (*summarizer).Update
summarizer_Update(s, qs) == [s EXCEPT !.counts = countAll(@, qs)]

\* the run-length encoding loop of (*recentSummarizer).Update
RECURSIVE encode(_, _)
encode(qc, qs) ==
    IF qs = <<>> THEN qc
    ELSE IF qc # <<>> /\ Last(qc).q = qs[1]
         THEN encode([qc EXCEPT ![Len(qc)].c = @ + 1], Tail(qs))
         ELSE encode(Append(qc, [q |-> qs[1], c |-> 1]), Tail(qs))

\* variant of Update that evicts only when the queue is longer than s.last
recentSummarizer_UpdateKeepOne(s, qs) ==
    LET kept == IF Len(s.counts) > s.last THEN Tail(s.counts) ELSE s.counts
    IN  [s EXCEPT !.counts = Append(kept, encode(<<>>, sortStrings(qs)))]
\* variant of Update that evicts the newest Round instead of the oldest
recentSummarizer_UpdateDropNewest(s, qs) ==
    LET kept == IF Len(s.counts) >= s.last THEN Front(s.counts) ELSE s.counts
    IN  [s EXCEPT !.counts = Append(kept, encode(<<>>, sortStrings(qs)))]
\* variant of Update that does not retain the Round of an empty batch
recentSummarizer_UpdateSkipEmpty(s, qs) ==
    LET kept == IF Len(s.counts) >= s.last THEN Tail(s.counts) ELSE s.counts
    IN  IF qs = <<>> THEN s
        ELSE [s EXCEPT !.counts = Append(kept, encode(<<>>, sortStrings(qs)))]
\* (*recentSummarizer).Update: evict s.counts[0] when len(s.counts) >= s.last,
\* then append the Round of the sorted batch
recentSummarizer_Update(s, qs) ==
    LET kept == IF Len(s.counts) >= s.last THEN Tail(s.counts) ELSE s.counts
    IN  [s EXCEPT !.counts = Append(kept, encode(<<>>, sortStrings(qs)))]

\* variant of mapAdd that overwrites instead of adding
mapPut(m, q, c) == IF q \in DOMAIN m THEN [m EXCEPT ![q] = c] ELSE m @@ (q :> c)
\* sum[qc.q] += qc.c
mapAdd(m, q, c) == IF q \in DOMAIN m THEN [m EXCEPT ![q] = @ + c] ELSE m @@ (q :> c)

RECURSIVE addRound(_, _)
addRound(m, qcs) ==
    IF qcs = <<>> THEN m ELSE addRound(mapAdd(m, qcs[1].q, qcs[1].c), Tail(qcs))

\* the map `sum` that (*recentSummarizer).Show builds from the retained rounds
RECURSIVE sumRounds(_, _)
sumRounds(m, rounds) ==
    IF rounds = <<>> THEN m ELSE sumRounds(addRound(m, rounds[1]), Tail(rounds))

\* the frequency mapping Show hands to showSummary
ShowMap(s) ==
    IF s.kind = "recentSummarizer" THEN sumRounds(<<>>, s.counts) ELSE s.counts

\* variant of AfterShow in which Show empties what it has reported
AfterShowDrained(s) == [s EXCEPT !.counts = <<>>]
\* the Summarizer after Show returns: neither Show assigns to s or to what
\* s.counts holds
AfterShow(s) == s

\* NewSummarizer(last)
NewSummarizer(last) ==
    IF last > 0
    THEN [kind |-> "recentSummarizer", last |-> last, counts |-> <<>>]
    ELSE [kind |-> "summarizer", counts |-> <<>>]

\* Summarizer.Update through the interface
Update(s, qs) ==
    IF s.kind = "recentSummarizer"
    THEN recentSummarizer_Update(s, qs)
    ELSE summarizer_Update(s, qs)

\* ---------------------------------------------------------------- normalizer

Digits == {"0", "1", "2", "3", "4", "5", "6", "7", "8", "9"}
HexDigits == Digits \cup {"A", "B", "C", "E", "F", "a", "b", "c", "f"}
\* \w of the alphabet: [0-9A-Za-z_]
WordChars ==
    {ch \in DOMAIN ascii :
        \/ ascii[ch] \in 48 .. 57
        \/ ascii[ch] \in 65 .. 90
        \/ ascii[ch] \in 97 .. 122
        \/ ascii[ch] = 95}
\* \s of the alphabet: [\t\n\f\r ]
SpaceChars == {ch \in DOMAIN ascii : ascii[ch] \in {9, 10, 12, 13, 32}}
NotSingleQuote == DOMAIN ascii \ {"'"}
NotDoubleQuote == DOMAIN ascii \ {"\""}

charAt(s, i) == IF i >= 1 /\ i <= Len(s) THEN s[i] ELSE ""

\* the length of the longest run of characters of class C starting at s[i]
RECURSIVE runLen(_, _, _)
runLen(s, i, C) ==
    IF i >= 1 /\ i <= Len(s) /\ s[i] \in C THEN 1 + runLen(s, i + 1, C) ELSE 0

\* \b between s[i-1] and s[i]
boundary(s, i) == (charAt(s, i - 1) \in WordChars) # (charAt(s, i) \in WordChars)

\* `[+\-]?\b\d+\b` at s[i]: the length matched, 0 when there is no match
matchInt(s, i) ==
    LET signed == runLen(s, i + 1, Digits)
        plain == runLen(s, i, Digits)
    IN  IF /\ charAt(s, i) \in {"+", "-"}
           /\ signed >= 1
           /\ boundary(s, i + 1)
           /\ boundary(s, i + 1 + signed)
        THEN 1 + signed
        ELSE IF plain >= 1 /\ boundary(s, i) /\ boundary(s, i + plain)
             THEN plain
             ELSE 0

\* `\b0x[0-9A-Fa-f]+\b` at s[i]
matchHex(s, i) ==
    LET h == runLen(s, i + 2, HexDigits)
    IN  IF /\ charAt(s, i) = "0"
           /\ charAt(s, i + 1) = "x"
           /\ boundary(s, i)
           /\ h >= 1
           /\ boundary(s, i + 2 + h)
        THEN 2 + h
        ELSE 0

\* `(\\')` and `(\\")` at s[i]
matchEscaped(s, i, quote) ==
    IF charAt(s, i) = "\\" /\ charAt(s, i + 1) = quote THEN 2 ELSE 0

\* `'[^']+'` and `"[^"]+"` at s[i]
matchQuoted(s, i, quote, inside) ==
    LET m == runLen(s, i + 1, inside)
    IN  IF charAt(s, i) = quote /\ m >= 1 /\ charAt(s, i + 1 + m) = quote
        THEN m + 2
        ELSE 0

\* one `[NS]\s*,\s*` at s[i]
matchPair(s, i) ==
    LET a == runLen(s, i + 1, SpaceChars)
    IN  IF charAt(s, i) \in {"N", "S"} /\ charAt(s, i + 1 + a) = ","
        THEN 2 + a + runLen(s, i + 2 + a, SpaceChars)
        ELSE 0

\* the greedy repetition of pairs at s[i]: how many, and their total length
RECURSIVE pairRun(_, _)
pairRun(s, i) ==
    LET m == matchPair(s, i)
    IN  IF m = 0 THEN [n |-> 0, len |-> 0]
        ELSE LET rest == pairRun(s, i + m)
             IN  [n |-> 1 + rest.n, len |-> m + rest.len]

\* variant of matchList that needs five pairs
matchListFive(s, i) == IF pairRun(s, i).n >= 5 THEN pairRun(s, i).len ELSE 0
\* `(([NS]\s*,\s*){4,})` at s[i]
matchList(s, i) == IF pairRun(s, i).n >= 4 THEN pairRun(s, i).len ELSE 0

\* variant of matchSpaces that takes the spaces two at a time
matchSpacesPairwise(s, i) == IF runLen(s, i, {" "}) >= 2 THEN 2 ELSE 0
\* ` +` at s[i]
matchSpaces(s, i) == runLen(s, i, {" "})

\* normalizePatterns[k].re at s[i]
matchLen(k, s, i) ==
    CASE k = 1 -> matchSpaces(s, i)
      [] k = 2 -> matchInt(s, i)
      [] k = 3 -> matchHex(s, i)
      [] k = 4 -> matchEscaped(s, i, "'")
      [] k = 5 -> matchEscaped(s, i, "\"")
      [] k = 6 -> matchQuoted(s, i, "'", NotSingleQuote)
      [] k = 7 -> matchQuoted(s, i, "\"", NotDoubleQuote)
      [] k = 8 -> matchList(s, i)

\* normalizePatterns[k].subs
subs ==
    <<  <<" ">>, <<"N">>, <<"0", "x", "N">>, <<>>, <<>>, <<"S">>, <<"S">>,
        <<".", ".", ".">>  >>

\* (*NormalizePattern).Normalize: re.ReplaceAllString from s[i] on, leftmost
\* matches, none overlapping
RECURSIVE replaceAll(_, _, _)
replaceAll(k, s, i) ==
    IF i > Len(s) THEN <<>>
    ELSE LET m == matchLen(k, s, i)
         IN  IF m > 0 THEN subs[k] \o replaceAll(k, s, i + m)
             ELSE <<s[i]>> \o replaceAll(k, s, i + 1)

RECURSIVE applyFrom(_, _)
applyFrom(k, q) ==
    IF k > Len(subs) THEN q ELSE applyFrom(k + 1, replaceAll(k, q, 1))

\* normalizeQuery
normalizeQuery(q) == applyFrom(1, q)

normalizeAll(qs) == [i \in 1 .. Len(qs) |-> normalizeQuery(qs[i])]

\* ---------------------------------------------------------------- snapshot

procList ==
    <<"S", "H", "O", "W", " ", "F", "U", "L", "L", " ",
      "P", "R", "O", "C", "E", "S", "S", "L", "I", "S", "T">>

\* the raw statement texts a snapshot may hold
RawPool == { <<"a", "=", "1">>, <<"a", "=", "2", "2">>, <<"b">> }

\* a row of the result set: whether Scan fails on it (info is then left nil),
\* and its Info column (a *string: nil or a text)
Rows ==
    [scanErr : {FALSE}, nil : {FALSE}, info : RawPool \cup {<<>>, procList}]
        \cup [scanErr : BOOLEAN, nil : {TRUE}, info : {<<>>}]

SeqsUpTo(S, n) == UNION {[1 .. k -> S] : k \in 0 .. n}

\* variant of scanRows that does not leave out the snapshot query's own row
RECURSIVE scanRowsCountSelf(_, _)
scanRowsCountSelf(qs, rows) ==
    IF rows = <<>> THEN qs
    ELSE LET r == rows[1]
         IN  IF r.scanErr THEN scanRowsCountSelf(qs, Tail(rows))
             ELSE IF ~r.nil /\ r.info # <<>>
                  THEN scanRowsCountSelf(Append(qs, r.info), Tail(rows))
                  ELSE scanRowsCountSelf(qs, Tail(rows))

\* the loop `for rows.Next()` of processList
RECURSIVE scanRows(_, _)
scanRows(qs, rows) ==
    IF rows = <<>> THEN qs
    ELSE LET r == rows[1]
         IN  IF r.scanErr THEN scanRows(qs, Tail(rows))
             ELSE IF ~r.nil /\ r.info # <<>> /\ r.info # procList
                  THEN scanRows(Append(qs, r.info), Tail(rows))
                  ELSE scanRows(qs, Tail(rows))

\* processList(db) when db.Query fails (queryErr) or yields `rows`
processList(queryErr, rows) == IF queryErr THEN <<>> ELSE scanRows(<<>>, rows)

\* ---------------------------------------------------------------- summarizer calls

\* the statements and batches the summarizer is driven with directly
Stmts == { <<"a", "b">>, <<"b">> }
Batches == SeqsUpTo(Stmts, MaxBatch)

\* the statements that can reach a summarizer
Universe == Stmts \cup {normalizeQuery(r) : r \in RawPool}

\* the number of times q occurs in the batch qs
occurrences(qs, q) == Cardinality({i \in DOMAIN qs : qs[i] = q})

\* the bookkeeping of a call Update(qs): one more call; for Cumulative the
\* occurrences so far; for Windowed(N) the batch joins the last N batches
Record(qs) ==
    /\ calls' = calls + 1
    /\ total' = IF cfg.last > 0 THEN total
                ELSE [q \in Universe |-> total[q] + occurrences(qs, q)]
    /\ seen' = seen \cup {qs[i] : i \in DOMAIN qs}
    /\ window' = IF cfg.last > 0
                 THEN IF Len(window) + 1 > cfg.last
                      THEN Tail(Append(window, qs))
                      ELSE Append(window, qs)
                 ELSE window

Did(name) == [name |-> name, n |-> 0, err |-> FALSE]

NoDump == [written |-> <<>>, failed |-> FALSE]

\* no result set is held
NoSnapshot == [queryErr |-> FALSE, colsErr |-> FALSE, lcs |-> 0, rows |-> <<>>]

InitRest ==
    /\ summ = NewSummarizer(cfg.last)
    /\ cnt = 0
    /\ queries = <<>>
    /\ round = 0
    /\ calls = 0
    /\ total = [q \in Universe |-> 0]
    /\ window = <<>>
    /\ seen = {}
    /\ out = <<>>
    /\ op = Did("New")
    /\ werr = FALSE
    /\ reported = {}
    /\ dumped = NoDump
    /\ qfailed = FALSE
    /\ snapshot = NoSnapshot
    /\ tokens = <<>>

InitSumm ==
    /\ cfg \in [dump : {FALSE}, topN : {0}, last : Lasts, delay : {1}]
    /\ pc = "api"
    /\ InitRest

\* summ.Update(qs)
CallUpdate ==
    /\ pc = "api"
    /\ calls < MaxCalls
    /\ \E qs \in Batches :
        /\ summ' = Update(summ, qs)
        /\ Record(qs)
    /\ out' = <<>>
    /\ op' = Did("Update")
    /\ UNCHANGED <<cfg, pc, cnt, queries, round, werr, reported, dumped>>
    /\ UNCHANGED <<qfailed, snapshot, tokens>>

\* summ.Show(w, n)
CallShow ==
    /\ pc = "api"
    /\ \E n \in TopNs, order \in IterOrders(ShowMap(summ)), failAt \in 0 .. Cardinality(DOMAIN ShowMap(summ)) :
        LET r == showSummary(ShowMap(summ), n, order, failAt)
        IN  /\ out' = r.lines
            /\ werr' = (werr \/ r.err)
            /\ op' = [name |-> "Show", n |-> n, err |-> r.err]
    /\ summ' = AfterShow(summ)
    /\ UNCHANGED <<cfg, pc, cnt, queries, round, calls, total, window, seen, reported, dumped>>
    /\ UNCHANGED <<qfailed, snapshot, tokens>>

NextSumm == CallUpdate \/ CallShow

SummSpec == InitSumm /\ [][NextSumm]_vars

\* ---------------------------------------------------------------- showSummary alone

\* the frequency mappings: any keys, any counts >= 1 (a Cumulative summarizer
\* holds such a mapping after suitable Updates)
FreqMaps == UNION {[K -> 1 .. MaxCount] : K \in SUBSET Universe}

InitRank ==
    /\ cfg \in [dump : {FALSE}, topN : {0}, last : {0}, delay : {1}]
    /\ pc = "rank"
    /\ summ \in {[kind |-> "summarizer", counts |-> m] : m \in FreqMaps}
    /\ cnt = 0
    /\ queries = <<>>
    /\ round = 0
    /\ calls = 0
    /\ total = [q \in Universe |-> IF q \in DOMAIN summ.counts THEN summ.counts[q] ELSE 0]
    /\ window = <<>>
    /\ seen = DOMAIN summ.counts
    /\ out = <<>>
    /\ op = Did("New")
    /\ werr = FALSE
    /\ reported = {}
    /\ dumped = NoDump
    /\ qfailed = FALSE
    /\ snapshot = NoSnapshot
    /\ tokens = <<>>

\* showSummary(w, summ.counts, n)
Rank ==
    /\ pc = "rank"
    /\ \E n \in TopNs, order \in IterOrders(summ.counts),
          failAt \in 0 .. Cardinality(DOMAIN summ.counts) :
        LET r == showSummary(summ.counts, n, order, failAt)
        IN  /\ out' = r.lines
            /\ werr' = (werr \/ r.err)
            /\ op' = [name |-> "Show", n |-> n, err |-> r.err]
    /\ UNCHANGED <<cfg, summ, pc, cnt, queries, round, calls, total, window, seen, reported, dumped>>
    /\ UNCHANGED <<qfailed, snapshot, tokens>>

RankSpec == InitRank /\ [][Rank]_vars

\* ---------------------------------------------------------------- profile

Init ==
    /\ cfg \in [dump : BOOLEAN, topN : LoopTopNs, last : LoopLasts, delay : Delays]
    /\ pc = "sample"
    /\ InitRest

\* variant of afterQueryError in which a failed snapshot query ends the loop
afterQueryErrorStops == "return"
\* where profile goes after processList's db.Query fails: processList logs
\* the error and returns its nil slice, and profile carries on with it
afterQueryError == "dump"

\* queries := processList(db)
Sample ==
    /\ pc = "sample"
    /\ round < MaxRounds
    /\ \/ /\ queries' = processList(TRUE, <<>>)
          /\ qfailed' = TRUE
          /\ pc' = afterQueryError
       \/ /\ \E rows \in SeqsUpTo(Rows, MaxBatch) : queries' = processList(FALSE, rows)
          /\ qfailed' = FALSE
          /\ pc' = "dump"
    /\ round' = round + 1
    /\ dumped' = NoDump
    /\ out' = <<>>
    /\ op' = Did("processList")
    /\ UNCHANGED <<cfg, summ, cnt, calls, total, window, seen, werr, reported>>
    /\ UNCHANGED <<snapshot, tokens>>

\* processList panics (rows.Columns fails) or calls log.Fatal (neither 8 nor
\* 9 columns): the process ends
SampleFatal ==
    /\ pc = "sample"
    /\ round < MaxRounds
    /\ round' = round + 1
    /\ op' = Did("processList")
    /\ pc' = "exit"
    /\ qfailed' = FALSE
    /\ UNCHANGED <<cfg, summ, cnt, queries, calls, total, window, seen, out, werr, reported, dumped>>
    /\ UNCHANGED <<snapshot, tokens>>

\* variant of dumpWrites that writes the normalized texts
RECURSIVE dumpWritesNormalized(_)
dumpWritesNormalized(qs) ==
    IF qs = <<>> THEN <<>>
    ELSE <<normalizeQuery(qs[1]), <<"\n">>>> \o dumpWritesNormalized(Tail(qs))

\* the writes of the dump loop: each statement, then a newline
RECURSIVE dumpWrites(_)
dumpWrites(qs) ==
    IF qs = <<>> THEN <<>> ELSE <<qs[1], <<"\n">>>> \o dumpWrites(Tail(qs))

\* variant of afterDumpError in which the loop carries on
afterDumpErrorIgnored == "update"
\* where profile goes after a failed write to cfg.dump: it returns
afterDumpError == "return"

\* if cfg.dump != nil { for _, q := range queries { Write(q); Write("\n") } }
\* where the failAt-th Write fails (0: none)
Dump ==
    /\ pc = "dump"
    /\ IF cfg.dump
       THEN \E failAt \in 0 .. 2 * Len(queries) :
            /\ dumped' = [written |-> SubSeq(dumpWrites(queries), 1,
                                             IF failAt = 0 THEN 2 * Len(queries)
                                             ELSE failAt - 1),
                          failed |-> failAt # 0]
            /\ pc' = IF failAt # 0 THEN afterDumpError ELSE "update"
       ELSE /\ dumped' = NoDump
            /\ pc' = "update"
    /\ out' = <<>>
    /\ op' = Did("dump")
    /\ UNCHANGED <<cfg, summ, cnt, queries, round, calls, total, window, seen, werr, reported>>
    /\ UNCHANGED <<qfailed, snapshot, tokens>>

\* queries[i] = normalizeQuery(q) for every i; summ.Update(queries)
Aggregate ==
    /\ pc = "update"
    /\ queries' = normalizeAll(queries)
    /\ summ' = Update(summ, normalizeAll(queries))
    /\ Record(normalizeAll(queries))
    /\ out' = <<>>
    /\ op' = Did("Update")
    /\ dumped' = NoDump
    /\ pc' = "cadence"
    /\ UNCHANGED <<cfg, cnt, round, werr, reported>>
    /\ UNCHANGED <<qfailed, snapshot, tokens>>

\* variant of due that fires only when the counter equals the delay
dueExactly(c, delay) == c = delay
\* variant of due that waits one round longer
dueLate(c, delay) == c > delay
\* cnt >= cfg.delay, evaluated after cnt++
due(c, delay) == c >= delay

\* cnt++; if cnt >= cfg.delay { cnt = 0; Println("## ", now); summ.Show(os.Stdout, cfg.topN) }
Cadence ==
    /\ pc = "cadence"
    /\ IF due(cnt + 1, cfg.delay)
       THEN /\ cnt' = 0
            /\ reported' = reported \cup {round}
            /\ \E order \in IterOrders(ShowMap(summ)),
                  failAt \in 0 .. Cardinality(DOMAIN ShowMap(summ)) :
                LET r == showSummary(ShowMap(summ), cfg.topN, order, failAt)
                IN  /\ out' = r.lines
                    /\ werr' = (werr \/ r.err)
                    /\ op' = [name |-> "Show", n |-> cfg.topN, err |-> r.err]
            /\ summ' = AfterShow(summ)
       ELSE /\ cnt' = cnt + 1
            /\ out' = <<>>
            /\ op' = Did("skip")
            /\ UNCHANGED <<summ, werr, reported>>
    /\ pc' = "sleep"
    /\ UNCHANGED <<cfg, queries, round, calls, total, window, seen, dumped>>
    /\ UNCHANGED <<qfailed, snapshot, tokens>>

\* time.Sleep(interval), then the next iteration
Sleep ==
    /\ pc = "sleep"
    /\ pc' = "sample"
    /\ out' = <<>>
    /\ op' = Did("Sleep")
    /\ UNCHANGED <<cfg, summ, cnt, queries, round, calls, total, window, seen, werr, reported, dumped>>
    /\ UNCHANGED <<qfailed, snapshot, tokens>>

Next == Sample \/ SampleFatal \/ Dump \/ Aggregate \/ Cadence \/ Sleep

Spec == Init /\ [][Next]_vars

\* ---------------------------------------------------------------- processList step by step

\* len(cs): the column counts a server may answer with
ListColumns == {7, 8, 9}

\* what db.Query and rows.Columns can give: an error from Query, or a result
\* set whose Columns call fails or succeeds with lcs columns
Snapshots ==
    {[queryErr |-> TRUE, colsErr |-> FALSE, lcs |-> 0, rows |-> <<>>]}
        \cup [queryErr : {FALSE}, colsErr : BOOLEAN, lcs : ListColumns,
              rows : SeqsUpTo(Rows, MaxBatch)]

InitList ==
    /\ cfg \in [dump : {FALSE}, topN : LoopTopNs, last : LoopLasts, delay : {1}]
    /\ pc = "query"
    /\ InitRest

\* rows, err := db.Query(procList)
Query ==
    /\ pc = "query"
    /\ snapshot' \in Snapshots
    /\ op' = Did("Query")
    /\ pc' = "list"
    /\ UNCHANGED <<cfg, summ, cnt, queries, round, calls, total, window, seen, out, werr,
                   reported, dumped, qfailed, tokens>>

\* the rest of processList: the error return, the panic and log.Fatal exits,
\* and the scan loop
List ==
    /\ pc = "list"
    /\ IF ~snapshot.queryErr /\ (snapshot.colsErr \/ (snapshot.lcs # 8 /\ snapshot.lcs # 9))
       THEN /\ pc' = "exit"
            /\ UNCHANGED queries
       ELSE /\ queries' = processList(snapshot.queryErr, snapshot.rows)
            /\ pc' = IF snapshot.queryErr THEN afterQueryError ELSE "dump"
    /\ qfailed' = snapshot.queryErr
    /\ round' = round + 1
    /\ op' = Did("processList")
    /\ UNCHANGED <<cfg, summ, cnt, calls, total, window, seen, out, werr, reported, dumped,
                   snapshot, tokens>>

\* one round of profile, its processList followed step by step
NextList == Query \/ List \/ Dump \/ Aggregate \/ Cadence \/ Sleep

ListSpec == InitList /\ [][NextList]_vars

\* ---------------------------------------------------------------- normalizeQuery alone

\* pieces of list statements: pairs as they stand, with blanks around the
\* comma, a number still to be replaced, and a separator
ListTokens ==
    { <<"N", ",">>, <<"S", " ", ",">>, <<"N", ",", " ">>, <<"1", ",">>, <<"=">> }

\* pieces of statements with single-quoted literals
QuoteTokens ==
    { <<"'", "a", "'">>, <<"'", "'">>, <<"'", "b", " ", "c", "'">>, <<"=">>, <<"x">> }

\* pieces of statements without literals
PlainTokens == { <<" ">>, <<"x">>, <<"N", ",">>, <<"S", " ", ",">> }

\* the statements normalizeQuery is applied to, as sequences of pieces
Inputs ==
    SeqsUpTo(ListTokens, MaxTokens) \cup SeqsUpTo(QuoteTokens, MaxTokens)
        \cup SeqsUpTo(PlainTokens, MaxTokens)

\* the text the pieces make up
RECURSIVE Flat(_)
Flat(ts) == IF ts = <<>> THEN <<>> ELSE ts[1] \o Flat(Tail(ts))

\* queries holds the statement, then what normalizeQuery makes of it, then
\* what normalizeQuery makes of that
InitNorm ==
    /\ cfg \in [dump : {FALSE}, topN : {0}, last : {0}, delay : {1}]
    /\ pc = "normalize"
    /\ tokens \in Inputs
    /\ queries = <<Flat(tokens)>>
    /\ summ = NewSummarizer(cfg.last)
    /\ cnt = 0
    /\ round = 0
    /\ calls = 0
    /\ total = [q \in Universe |-> 0]
    /\ window = <<>>
    /\ seen = {}
    /\ out = <<>>
    /\ op = Did("New")
    /\ werr = FALSE
    /\ reported = {}
    /\ dumped = NoDump
    /\ qfailed = FALSE
    /\ snapshot = NoSnapshot

\* normalizeQuery(q), on the statement and then on its own result
Normalize ==
    /\ pc = "normalize"
    /\ Len(queries) <= 2
    /\ queries' = Append(queries, normalizeQuery(Last(queries)))
    /\ op' = Did("normalizeQuery")
    /\ UNCHANGED <<cfg, summ, pc, cnt, round, calls, total, window, seen, out, werr,
                   reported, dumped, qfailed, snapshot, tokens>>

NormSpec == InitNorm /\ [][Normalize]_vars

\* ---------------------------------------------------------------- properties

IsRecent == summ.kind = "recentSummarizer"
IsCumulative == summ.kind = "summarizer"

\* the Round of a batch: its sorted, run-length-encoded form
RoundOf(qs) == encode(<<>>, sortStrings(qs))

\* the number of times q occurs in the batches of w
RECURSIVE occurrencesIn(_, _)
occurrencesIn(w, q) ==
    IF w = <<>> THEN 0 ELSE occurrences(w[1], q) + occurrencesIn(Tail(w), q)

\* C1: Windowed(N), N > 0: after any sequence of Update and Show calls the
\* number of retained Rounds is at most N.
C1_WindowBounded == IsRecent => Len(summ.counts) <= summ.last

C1_Witness ==
    /\ IsRecent
    /\ summ.last = 2
    /\ calls = 3
    /\ Len(summ.counts) = 2
    /\ Last(window) = <<>>
    /\ op.name = "Show"

\* an Update step of Windowed(N) appends the new Round to the previous queue
\* and then, if the length exceeds N, removes the oldest Round
C2_Step ==
    (IsRecent /\ calls' = calls + 1) =>
        LET appended == Append(summ.counts, RoundOf(Last(window')))
        IN  summ'.counts =
                IF Len(appended) > summ.last THEN Tail(appended) ELSE appended

\* after k Updates the queue holds the Rounds of the last min(k, N) batches,
\* in arrival order
C2_Holds ==
    IsRecent =>
        /\ Len(window) = Min(calls, summ.last)
        /\ summ.counts = [i \in 1 .. Len(window) |-> RoundOf(window[i])]

\* C2: Windowed(N): each Update leaves the queue equal to the previous queue
\* with the new Round appended and then, if its length exceeds N, its oldest
\* Round removed; so after k Updates it holds the Rounds of the last
\* min(k, N) batches in arrival order.
C2_Fifo == [][C2_Step]_vars /\ []C2_Holds

C2_Witness ==
    /\ IsRecent
    /\ summ.last = 2
    /\ calls = 3
    /\ window = << << <<"b">>, <<"b">> >>, << <<"b">>, <<"a", "b">> >> >>
    /\ summ.counts = << << [q |-> <<"b">>, c |-> 2] >>,
                        << [q |-> <<"a", "b">>, c |-> 1], [q |-> <<"b">>, c |-> 1] >> >>

\* C3: Windowed(N): the mapping Show ranks after k Updates gives every
\* statement its number of occurrences in the last min(k, N) batches, holds
\* no statement that occurs in none of them, and the lines Show emits carry
\* those numbers.
C3_WindowCounts ==
    IsRecent =>
        /\ \A q \in DOMAIN ShowMap(summ) :
            q \in Universe /\ occurrencesIn(window, q) >= 1
        /\ \A q \in Universe :
            IF occurrencesIn(window, q) = 0
            THEN q \notin DOMAIN ShowMap(summ)
            ELSE q \in DOMAIN ShowMap(summ)
                 /\ ShowMap(summ)[q] = occurrencesIn(window, q)
        /\ op.name = "Show" =>
            \A i \in DOMAIN out : out[i].c = occurrencesIn(window, out[i].q)

\* three Updates into Windowed(2); a statement of the first batch, evicted,
\* is in neither of the last two and not in the mapping; Show has reported
C3_Witness ==
    /\ IsRecent
    /\ summ.last = 2
    /\ calls = 3
    /\ op.name = "Show"
    /\ out # <<>>
    /\ \E q \in seen : occurrencesIn(window, q) = 0 /\ q \notin DOMAIN ShowMap(summ)
    /\ \E q \in seen : occurrencesIn(window, q) = 2

\* C4: Cumulative: the stored count of every statement is the number of its
\* occurrences over all batches so far (no entry for a statement never
\* seen), and no step removes a key or lowers a count.
C4_Counted ==
    IsCumulative =>
        /\ DOMAIN summ.counts \subseteq Universe
        /\ \A q \in Universe :
            IF total[q] = 0
            THEN q \notin DOMAIN summ.counts
            ELSE q \in DOMAIN summ.counts /\ summ.counts[q] = total[q]

C4_Monotone ==
    IsCumulative =>
        \A q \in DOMAIN summ.counts :
            q \in DOMAIN summ'.counts /\ summ'.counts[q] >= summ.counts[q]

C4_Cumulative == []C4_Counted /\ [][C4_Monotone]_vars

\* Update(b, b) then Update(b): the count of b is 3; a second statement
\* stays at 1
C4_Witness ==
    /\ IsCumulative
    /\ calls = 2
    /\ \E q \in DOMAIN summ.counts : summ.counts[q] = 3 /\ total[q] = 3
    /\ \E q \in DOMAIN summ.counts : summ.counts[q] = 1

\* C5: Show is read-only for both variants: a Show step, whatever topN, map
\* order or sink failure, leaves the summarizer state as it was.
C5_ShowReadOnly == [][op'.name = "Show" => summ' = summ]_vars

C5_Witness ==
    /\ op.name = "Show"
    /\ calls >= 2
    /\ out # <<>>
    /\ summ.counts # <<>>

\* the counts of the emitted lines never rise, and two adjacent lines with
\* the same count are two statements that tie in the mapping
C6_Ordered(lines, sum) ==
    \A i \in 2 .. Len(lines) :
        /\ lines[i].c <= lines[i - 1].c
        /\ lines[i].c = lines[i - 1].c =>
            /\ lines[i].q # lines[i - 1].q
            /\ sum[lines[i].q] = sum[lines[i - 1].q]

\* C6 as stated: the emitted lines are strictly descending by count.
C6_StrictlyDescending ==
    op.name = "Show" => \A i \in 2 .. Len(out) : out[i].c < out[i - 1].c

\* C6, amended: the emitted lines are descending by count but not strictly:
\* every line has a count less than or equal to the line before it, and
\* equal only for two statements that tie in the mapping.
C6_NonIncreasing == op.name = "Show" => C6_Ordered(out, summ.counts)

C6_Witness ==
    /\ op.name = "Show"
    /\ Len(out) = 3
    /\ out[1].c > out[2].c
    /\ out[2].c = out[3].c

\* what every report satisfies: each line is a statement of the mapping with
\* its count, no statement twice, and no statement left out has a count
\* greater than an emitted one
C7_Lines(lines, sum) ==
    LET emitted == {lines[i].q : i \in DOMAIN lines}
    IN  /\ \A i \in DOMAIN lines : lines[i].q \in DOMAIN sum /\ lines[i].c = sum[lines[i].q]
        /\ \A i, j \in DOMAIN lines : lines[i].q = lines[j].q => i = j
        /\ \A q \in DOMAIN sum \ emitted : \A i \in DOMAIN lines : sum[q] <= lines[i].c

\* C7 as stated: for topN >= 0 and a mapping of d statements, exactly
\* min(topN, d) lines are emitted, each statement at most once, and no
\* statement left out has a count greater than an emitted one.
C7_ExactlyMin ==
    (op.name = "Show" /\ op.n >= 0) =>
        /\ Len(out) = Min(op.n, Cardinality(DOMAIN summ.counts))
        /\ C7_Lines(out, summ.counts)

\* C7, amended: the same when every write to the sink succeeds; when a write
\* fails the report stops there, with fewer than min(topN, d) lines.
C7_TopN ==
    (op.name = "Show" /\ op.n >= 0) =>
        /\ IF op.err
           THEN Len(out) < Min(op.n, Cardinality(DOMAIN summ.counts))
           ELSE Len(out) = Min(op.n, Cardinality(DOMAIN summ.counts))
        /\ C7_Lines(out, summ.counts)

\* three statements, topN = 2: two lines, the statement left out has a
\* smaller count than both
C7_Witness ==
    /\ op.name = "Show"
    /\ op.n = 2
    /\ ~op.err
    /\ Cardinality(DOMAIN summ.counts) = 3
    /\ Len(out) = 2
    /\ \E q \in DOMAIN summ.counts :
        /\ q \notin {out[i].q : i \in DOMAIN out}
        /\ summ.counts[q] < out[2].c

\* round r has run to the end of its iteration
Completed(r) == r < round \/ (r = round /\ pc \in {"sleep", "sample"})

\* C8: with delay = d >= 1 a report is emitted at the end of round r iff r
\* is a positive multiple of d, and cnt is reset to zero exactly at those
\* rounds.
C8_Cadence ==
    cfg.delay >= 1 =>
        /\ \A r \in reported : Completed(r)
        /\ \A r \in 1 .. round :
            Completed(r) => (r \in reported <=> r % cfg.delay = 0)
        /\ pc = "sleep" =>
            /\ cnt = round % cfg.delay
            /\ cnt = 0 <=> round \in reported

\* delay = 2, three rounds: one report, after round 2
C8_Witness ==
    /\ cfg.delay = 2
    /\ round = 3
    /\ pc = "sleep"
    /\ reported = {2}
    /\ cnt = 1

\* C9 as stated: once a write to the report sink has failed during Show, no
\* further round is sampled, no further Update is applied and no further
\* report is emitted.
C9_SinkErrorFatal ==
    [][werr => (round' = round /\ calls' = calls /\ reported' = reported)]_vars

C10_Stopped ==
    dumped.failed =>
        /\ cfg.dump
        /\ pc = "return"
        /\ calls = round - 1
        /\ round \notin reported

C10_Stays ==
    dumped.failed => UNCHANGED <<pc, round, calls, summ, reported>>

\* C10: a failed write to the raw-dump sink in round r stops the loop in
\* that round: round r's statements are not passed to Update, no report is
\* emitted for round r and no later round is sampled.
C10_DumpErrorStops == []C10_Stopped /\ [][C10_Stays]_vars

\* the second statement's write fails in round 2, after round 1 ran through
C10_Witness ==
    /\ dumped.failed
    /\ Len(dumped.written) = 2
    /\ Len(queries) = 2
    /\ round = 2
    /\ calls = 1
    /\ pc = "return"

\* C11: a round whose snapshot query failed is processed as an empty batch:
\* the loop does not stop, Update is called with zero statements (which
\* leaves the Cumulative counts as they were), the counter advances and the
\* report is emitted when the cadence is reached, and the loop goes on to
\* sample the next round
C11_Round ==
    qfailed =>
        /\ pc \in {"dump", "update", "cadence", "sleep", "sample"}
        /\ pc \in {"dump", "update", "cadence"} => queries = <<>>
        /\ pc \in {"cadence", "sleep", "sample"} => calls = round
        /\ (pc \in {"sleep", "sample"} /\ cfg.delay >= 1) =>
               (round \in reported <=> round % cfg.delay = 0)

C11_Step ==
    qfailed =>
        /\ pc = "update" =>
               /\ calls' = calls + 1
               /\ seen' = seen
               /\ IsCumulative => summ'.counts = summ.counts
               /\ IsRecent => Last(summ'.counts) = <<>>
               /\ pc' = "cadence"
        /\ pc = "cadence" =>
               /\ cnt' = (IF cnt + 1 >= cfg.delay THEN 0 ELSE cnt + 1)
               /\ (round \in reported') <=> (cnt + 1 >= cfg.delay)
               /\ pc' = "sleep"
        /\ pc = "sleep" => pc' = "sample"
        /\ (pc = "sample" /\ round' = round + 1) => pc' \in {"dump", "exit"}

C11_QueryErrorEmptyRound == []C11_Round /\ [][C11_Step]_vars

\* Cumulative: round 1 counted a statement, the query of round 2 failed,
\* round 2 ran to its end and was reported with the counts as they were,
\* and the loop is about to sample round 3
C11_Witness ==
    /\ qfailed
    /\ round = 2
    /\ pc = "sample"
    /\ calls = 2
    /\ reported = {1, 2}
    /\ IsCumulative
    /\ DOMAIN summ.counts = {<<"b">>}
    /\ total[<<"b">>] = 1
    /\ ENABLED Sample

\* the rows of a result set whose text is passed on: decoded, not NULL, not
\* empty, not the snapshot query
Kept(rows) ==
    {i \in DOMAIN rows : /\ ~rows[i].scanErr
                         /\ ~rows[i].nil
                         /\ rows[i].info # <<>>
                         /\ rows[i].info # procList}

KeptNow == IF snapshot.queryErr THEN {} ELSE Kept(snapshot.rows)

CountNow(q) == IF q \in DOMAIN ShowMap(summ) THEN ShowMap(summ)[q] ELSE 0

\* C12: the batch processList hands to profile holds, in snapshot order,
\* exactly the texts of the rows that were decoded and are neither NULL, nor
\* empty, nor the snapshot query; after Update every statement's count is the
\* number of such rows that normalize to it, so no other row is counted
C12_BatchIsKeptRows ==
    /\ (pc = "dump" /\ op.name = "processList") =>
           /\ Len(queries) = Cardinality(KeptNow)
           /\ \A k \in KeptNow :
                  queries[Cardinality({i \in KeptNow : i <= k})] = snapshot.rows[k].info
    /\ (pc \in {"cadence", "sleep", "sample"}) =>
           \A q \in Universe \cup DOMAIN ShowMap(summ) :
               CountNow(q) = Cardinality({k \in KeptNow :
                                             normalizeQuery(snapshot.rows[k].info) = q})
    /\ pc = "exit" => calls = 0

\* the snapshot held the snapshot query's own row and one statement, and
\* only the statement was counted
C12_Witness ==
    /\ pc = "cadence"
    /\ Len(snapshot.rows) = 2
    /\ ~snapshot.rows[1].nil /\ snapshot.rows[1].info = procList
    /\ snapshot.rows[2].info = <<"a", "=", "1">>
    /\ DOMAIN ShowMap(summ) = {<<"a", "=", "N">>}

\* the sum of the counts of a Round
RECURSIVE RoundSum(_)
RoundSum(r) == IF r = <<>> THEN 0 ELSE r[1].c + RoundSum(Tail(r))

\* C13: Windowed(N): every retained Round lists its statements in strictly
\* increasing text order, each with a count >= 1 equal to its number of
\* occurrences in the batch the Round was made from, and the counts of a
\* Round sum to the batch length; the lines Show prints from the mapping it
\* hands to showSummary name every statement at most once
C13_RoundsCanonical ==
    /\ IsRecent =>
           /\ Len(summ.counts) = Len(window)
           /\ \A i \in DOMAIN summ.counts :
                  LET r == summ.counts[i]
                      b == window[i]
                  IN  /\ \A j \in 2 .. Len(r) : strLess(r[j - 1].q, r[j].q)
                      /\ \A j \in DOMAIN r :
                             r[j].c >= 1 /\ r[j].c = occurrences(b, r[j].q)
                      /\ \A k \in DOMAIN b : \E j \in DOMAIN r : r[j].q = b[k]
                      /\ RoundSum(r) = Len(b)
    /\ op.name = "Show" => \A i, j \in DOMAIN out : out[i].q = out[j].q => i = j

\* a batch arrived out of text order and its Round has two statements; a
\* Round with a repeated statement is retained as well
C13_Witness ==
    /\ IsRecent
    /\ Len(window) = 2
    /\ window[1] = << <<"b">>, <<"a", "b">> >>
    /\ Len(summ.counts[1]) = 2
    /\ window[2] = << <<"b">>, <<"b">> >>
    /\ summ.counts[2] = << [q |-> <<"b">>, c |-> 2] >>
    /\ op.name = "Show"
    /\ Len(out) = 2

\* the steps of an iteration follow one another as profile writes them; the
\* dump step leaves the batch as sampled, the update step normalizes it and
\* hands it to Update
C14_Step ==
    /\ pc = "sample" => pc' \in {"dump", "exit"}
    /\ pc = "dump" => pc' \in {"update", "return"} /\ queries' = queries /\ summ' = summ
    /\ pc = "update" =>
           /\ pc' = "cadence"
           /\ Len(queries') = Len(queries)
           /\ \A i \in DOMAIN queries : queries'[i] = normalizeQuery(queries[i])
           /\ calls' = calls + 1
    /\ pc = "cadence" => pc' = "sleep" /\ calls' = calls /\ queries' = queries
    /\ pc = "sleep" => pc' = "sample"

C14_State ==
    /\ (pc = "update" /\ cfg.dump) =>
           /\ Len(dumped.written) = 2 * Len(queries)
           /\ \A i \in DOMAIN queries :
                  /\ queries[i] \in RawPool
                  /\ dumped.written[2 * i - 1] = queries[i]
                  /\ dumped.written[2 * i] = <<"\n">>
    /\ (pc = "sleep" /\ op.name = "Show") =>
           /\ calls = round
           /\ \A i \in DOMAIN queries :
                  /\ queries[i] \in DOMAIN ShowMap(summ)
                  /\ ShowMap(summ)[queries[i]] >= occurrences(queries, queries[i])
                  /\ (~op.err /\ Cardinality(DOMAIN ShowMap(summ)) <= cfg.topN) =>
                         \E j \in DOMAIN out : out[j].q = queries[i]
           /\ IsCumulative =>
                  \A j \in DOMAIN out : out[j].c = total[out[j].q]

NoLiterals(s) == \A i \in DOMAIN s : s[i] \notin Digits \cup {"'", "\""}

\* C15: for a statement without literals, normalizing the normalized
\* statement again gives the same text
C15_Idempotent ==
    (Len(queries) = 3 /\ NoLiterals(queries[1])) => queries[3] = queries[2]

\* a statement without literals that normalizeQuery changed (its blanks
\* collapsed), normalized twice
C15_Witness ==
    /\ Len(queries) = 3
    /\ tokens = << <<" ">>, <<" ">>, <<"N", ",">>, <<"N", ",">>, <<"N", ",">> >>
    /\ NoLiterals(queries[1])
    /\ queries[2] = <<" ", "N", ",", "N", ",", "N", ",">>
    /\ queries[3] = queries[2]

\* a piece that is a single-quoted literal
IsLiteral(t) == Len(t) >= 2 /\ t[1] = "'" /\ t[Len(t)] = "'"

\* the pieces with every literal replaced by S
LiteralsReplaced(ts) ==
    Flat([i \in 1 .. Len(ts) |-> IF IsLiteral(ts[i]) THEN <<"S">> ELSE ts[i]])

\* C16 as stated: in a statement made of single-quoted literals (the empty
\* literal '' among them) and text between them, normalizeQuery replaces
\* each literal by S and leaves the text between them as it was, so no quote
\* character remains
C16_LiteralsToS ==
    (Len(queries) >= 2 /\ \A i \in DOMAIN tokens : tokens[i] \in QuoteTokens) =>
        /\ queries[2] = LiteralsReplaced(tokens)
        /\ \A i \in DOMAIN queries[2] : queries[2][i] # "'"

\* the number of pieces at the head of ts that are pairs
RECURSIVE LeadingPairs(_)
LeadingPairs(ts) ==
    IF ts = <<>> \/ ts[1] = <<"=">> THEN 0 ELSE 1 + LeadingPairs(Tail(ts))

\* a pair piece once its number is replaced by N
AsPair(t) == IF t = <<"1", ",">> THEN <<"N", ",">> ELSE t

\* the pieces with every run of four or more pairs replaced by `...` and
\* every shorter run left as it is
RECURSIVE Collapsed(_)
Collapsed(ts) ==
    IF ts = <<>> THEN <<>>
    ELSE LET k == LeadingPairs(ts)
         IN  IF k = 0 THEN ts[1] \o Collapsed(Tail(ts))
             ELSE (IF k >= 4 THEN <<".", ".", ".">>
                   ELSE Flat([i \in 1 .. k |-> AsPair(ts[i])]))
                      \o Collapsed(SubSeq(ts, k + 1, Len(ts)))

\* C17: normalizeQuery replaces every run of four or more N,/S, pairs
\* (blanks around the commas allowed, numbers first replaced by N) by `...`
\* and leaves a run of three or fewer pairs unchanged; its output never
\* holds four pairs in a row
C17_ListsCollapsed ==
    Len(queries) >= 2 =>
        /\ \A i \in DOMAIN queries[2] : pairRun(queries[2], i).n < 4
        /\ (\A i \in DOMAIN tokens : tokens[i] \in ListTokens) =>
               queries[2] = Collapsed(tokens)

\* a separator followed by four pairs of mixed form, collapsed
C17_Witness ==
    /\ Len(queries) >= 2
    /\ tokens = << <<"=">>, <<"N", ",">>, <<"S", " ", ",">>, <<"1", ",">>, <<"N", ",", " ">> >>
    /\ queries[2] = <<"=", ".", ".", ".">>

\* the counts of report lines, in the order printed
CountsOf(lines) == [i \in 1 .. Len(lines) |-> lines[i].c]

\* what showSummary prints for the mapping and topN of the last Show, with
\* the same write failing, when the map is visited in `order`
Rerun(order) ==
    showSummary(summ.counts, op.n, order, IF op.err THEN Len(out) + 1 ELSE 0).lines

\* C18: for the mapping and topN of a report, every order in which the map
\* can be visited gives the same sequence of printed counts; where two such
\* reports differ in a statement text, the two statements have equal counts
C18_CountsDetermined ==
    op.name = "Show" =>
        \A order \in IterOrders(summ.counts) :
            /\ CountsOf(Rerun(order)) = CountsOf(out)
            /\ \A i \in DOMAIN out :
                   Rerun(order)[i].q # out[i].q =>
                       summ.counts[Rerun(order)[i].q] = summ.counts[out[i].q]

\* a report of three lines, two of them tied, that another visiting order
\* prints with the tied statements swapped
C18_Witness ==
    /\ op.name = "Show"
    /\ ~op.err
    /\ CountsOf(out) = <<3, 1, 1>>
    /\ \E order \in IterOrders(summ.counts) :
           /\ Rerun(order) # out
           /\ Rerun(order)[2].q = out[3].q

\* the last n Update calls all had an empty batch
EmptyRounds(n) ==
    /\ calls >= n
    /\ Len(window) >= n
    /\ \A i \in DOMAIN window : i > Len(window) - n => window[i] = <<>>

C19_State ==
    (IsRecent /\ EmptyRounds(summ.last)) =>
        /\ ShowMap(summ) = << >>
        /\ \A i \in DOMAIN summ.counts : summ.counts[i] = <<>>
        /\ op.name = "Show" => out = <<>>

C19_Step ==
    (IsRecent /\ calls' = calls + 1 /\ Last(window') = <<>>) =>
        /\ summ'.counts # <<>>
        /\ Last(summ'.counts) = <<>>
        /\ Front(summ'.counts) =
               (IF Len(summ.counts) >= summ.last THEN Tail(summ.counts) ELSE summ.counts)

\* C19: Windowed(N): Update with an empty batch appends an empty Round and
\* evicts the oldest Round when the queue is full; after N empty rounds in a
\* row every retained Round is empty and Show reports no statement
C19_EmptyRoundsFlush == []C19_State /\ [][C19_Step]_vars

\* N = 2: round 1 saw a statement, rounds 2 and 3 had no statement (the
\* query of round 3 failed), and the report after round 3 is empty
C19_Witness ==
    /\ IsRecent
    /\ summ.last = 2
    /\ round = 3
    /\ seen # {}
    /\ qfailed
    /\ window = << <<>>, <<>> >>
    /\ op.name = "Show"
    /\ out = <<>>

\* C20: at the end of every iteration 0 <= cnt < max(1, delay); with
\* delay <= 0 the counter is back at 0 at the end of every round and every
\* round that ran to its end was reported, as with delay = 1
C20_CounterRange ==
    /\ pc \in {"sleep", "sample"} => (0 <= cnt /\ cnt < Max(1, cfg.delay))
    /\ cfg.delay <= 1 =>
           /\ pc \in {"sleep", "sample"} => cnt = 0
           /\ \A r \in 1 .. round : Completed(r) => r \in reported
           /\ (pc = "sleep" /\ round >= 1) => op.name = "Show"

\* delay = 0: three rounds ran and each was reported
C20_Witness ==
    /\ cfg.delay = 0
    /\ pc = "sleep"
    /\ round = 3
    /\ reported = {1, 2, 3}
    /\ cnt = 0
    /\ seen # {}

====
